---- MODULE Spec2Model ----
(***************************************************************************)
(* The coupled lazy-evaluated simulation engine of perthame_edp:           *)
(* the memoized integral functionals F and G (integral_functional.py),     *)
(* the solvers SolverU, SolverRMethod1, SolverRMethod2 and the driver      *)
(* solve_perthame (solver.py).                                             *)
(*                                                                         *)
(* Numbers.  The program computes in floating point; the model computes    *)
(* in exact rationals <<p, q>> (q > 0, lowest terms).  A division by zero  *)
(* yields NonFinite (numpy's inf/nan), which every later operation keeps.  *)
(***************************************************************************)
EXTENDS Integers, Sequences, FiniteSets, TLC

\* ------------------------------------------------------------------ bounds
\* N + 2 trait mesh points, M + 2 resource mesh points, rows 0..MaxT in time.
N == 1
M == 2
MaxT == 2
\* Time steps of a functional that is constructed and exercised on its own.
FuncT == 1
\* Number of operations a free sequence of calls may hold.
MaxOps == 3

\* ------------------------------------------------------- rational numbers
NonFinite == <<1, 0>>

Abs(a) == IF a < 0 THEN -a ELSE a

\* Op applied to the value of v, which is computed once.
With(v, Op(_)) == CHOOSE out \in {Op(w) : w \in {v}} : TRUE

\* Op applied to the values of v1 and v2, each computed once.
With2(v1, v2, Op(_, _)) ==
    CHOOSE out \in {Op(w1, w2) : w1 \in {v1}, w2 \in {v2}} : TRUE

RECURSIVE GCD(_, _)
GCD(a, b) == With2(a, b, LAMBDA v, w : IF w = 0 THEN v ELSE GCD(w, v % w))

\* The rational p/q in lowest terms with a positive denominator.
Q(p, q) ==
    With2(p, q, LAMBDA num, den :
        IF den = 0 THEN NonFinite
        ELSE With2(GCD(Abs(num), Abs(den)), IF den < 0 THEN -1 ELSE 1, LAMBDA g, s :
                <<(s * num) \div g, (s * den) \div g>>))

I(k) == <<k, 1>>

IsFinite(a) == a[2] # 0

\* The operations reduce before they multiply, to keep the integers small.
QAdd(a, b) ==
    With2(a, b, LAMBDA v, w :
        IF v[2] = 1 /\ w[2] = 1 THEN <<v[1] + w[1], 1>>
        ELSE IF IsFinite(v) /\ IsFinite(w)
        THEN With(GCD(v[2], w[2]), LAMBDA g :
                Q(v[1] * (w[2] \div g) + w[1] * (v[2] \div g), (v[2] \div g) * w[2]))
        ELSE NonFinite)
QNeg(a) == With(a, LAMBDA v : IF IsFinite(v) THEN <<-v[1], v[2]>> ELSE NonFinite)
QSub(a, b) == QAdd(a, QNeg(b))
QMul(a, b) ==
    With2(a, b, LAMBDA v, w :
        IF v[2] = 1 /\ w[2] = 1 THEN <<v[1] * w[1], 1>>
        ELSE IF IsFinite(v) /\ IsFinite(w)
        THEN With2(GCD(Abs(v[1]), w[2]), GCD(Abs(w[1]), v[2]), LAMBDA g1, g2 :
                Q((v[1] \div g1) * (w[1] \div g2), (v[2] \div g2) * (w[2] \div g1)))
        ELSE NonFinite)
QInv(a) == With(a, LAMBDA v : IF IsFinite(v) THEN Q(v[2], v[1]) ELSE NonFinite)
QDiv(a, b) == QMul(a, QInv(b))
QNonNeg(a) == With(a, LAMBDA v : IsFinite(v) /\ v[1] >= 0)
QPos(a) == With(a, LAMBDA v : IsFinite(v) /\ v[1] > 0)

\* numpy's elementwise operations on one-dimensional arrays.
VAdd(a, b) == With2(a, b, LAMBDA v, w : [i \in 1..Len(v) |-> QAdd(v[i], w[i])])
VSub(a, b) == With2(a, b, LAMBDA v, w : [i \in 1..Len(v) |-> QSub(v[i], w[i])])
VMul(a, b) == With2(a, b, LAMBDA v, w : [i \in 1..Len(v) |-> QMul(v[i], w[i])])
VDiv(a, b) == With2(a, b, LAMBDA v, w : [i \in 1..Len(v) |-> QDiv(v[i], w[i])])
VScale(c, a) == With2(c, a, LAMBDA s, v : [i \in 1..Len(v) |-> QMul(s, v[i])])
VConst(len, c) == With(c, LAMBDA v : [i \in 1..len |-> v])

RECURSIVE VSumTo(_, _)
VSumTo(a, k) ==
    With2(a, k, LAMBDA v, i : IF i = 0 THEN I(0) ELSE QAdd(VSumTo(v, i - 1), v[i]))
VSum(a) == With(a, LAMBDA v : VSumTo(v, Len(v)))

\* ------------------------------------------------------------------- mesh
\* np.linspace(lo, hi, num): num equally spaced points from lo to hi.
linspace(lo, hi, num) ==
    [i \in 1..num |-> QAdd(lo, QMul(I(i - 1), QDiv(QSub(hi, lo), I(num - 1))))]

\* The discretization of the model: the limits are chosen so that the
\* spacing of both meshes is 3.
x_lims == <<I(0), I(3 * (N + 1))>>
y_lims == <<I(0), I(3 * (M + 1))>>
x == linspace(x_lims[1], x_lims[2], N + 2)
y == linspace(y_lims[1], y_lims[2], M + 2)
h1 == QSub(x[2], x[1])

\* ------------------------------------------------------------- quadrature
\* Composite Simpson's rule over the panels (i, i+1, i+2), i = from, from+2, ...
RECURSIVE SimpsonPanels(_, _, _, _)
SimpsonPanels(f, h, from, to) ==
    With(from, LAMBDA i :
        IF i + 2 > to THEN I(0)
        ELSE QAdd(QMul(QDiv(h, I(3)),
                       QAdd(f[i], QAdd(QMul(I(4), f[i + 1]), f[i + 2]))),
                  SimpsonPanels(f, h, i + 2, to)))

Trapezoid(f, h, i) == QMul(QDiv(h, I(2)), QAdd(f[i], f[i + 1]))

\* scipy.integrate.simpson(f, x=mesh) on an equally spaced mesh.  An odd number
\* of points is the composite rule; an even number averages the two results
\* that treat the first or the last interval by the trapezoidal rule.
simpson(f, mesh) ==
    With2(f, QSub(mesh[2], mesh[1]), LAMBDA v, h :
    With(Len(v), LAMBDA len :
        IF len % 2 = 1 THEN SimpsonPanels(v, h, 1, len)
        ELSE QDiv(QAdd(QAdd(SimpsonPanels(v, h, 1, len - 1), Trapezoid(v, h, len - 1)),
                       QAdd(Trapezoid(v, h, 1), SimpsonPanels(v, h, 2, len))),
                  I(2))))

\* ----------------------------------------------------------- model inputs
\* The coefficient arrays and initial data the solvers are constructed with.
\* The kernels are concentrated on the second resource point, which keeps
\* the exact rationals of a coupled run small.
\*   "diffusive": mutation, no mortality, no initial resource;
\*   "decaying":  no mutation, a mortality large enough for the explicit u
\*                update to change the sign of u;
\*   "example":   the end-to-end scenario (m_1 = m_2 = 0, eps = 0, dt = 0.1).
kernel(kappa) ==
    [j \in 1..(N + 2) |-> [k \in 1..(M + 2) |-> IF k = 2 THEN I(kappa[j]) ELSE I(0)]]

Configs ==
    { [name |-> "diffusive", dt |-> I(1), eps |-> I(9),
       m_1 |-> VConst(N + 2, I(0)), r |-> VConst(N + 2, I(1)),
       K |-> kernel([j \in 1..(N + 2) |-> 1]),
       m_2 |-> VConst(M + 2, I(1)), R_in |-> VConst(M + 2, I(1)),
       u_0 |-> [j \in 1..(N + 2) |-> IF j = 1 THEN I(1) ELSE I(0)],
       R_0 |-> VConst(M + 2, I(0))],
      [name |-> "decaying", dt |-> I(1), eps |-> I(0),
       m_1 |-> VConst(N + 2, I(2)), r |-> VConst(N + 2, I(1)),
       K |-> kernel([j \in 1..(N + 2) |-> 1]),
       m_2 |-> VConst(M + 2, I(1)), R_in |-> VConst(M + 2, I(1)),
       u_0 |-> VConst(N + 2, I(1)), R_0 |-> VConst(M + 2, I(0))],
      [name |-> "example", dt |-> Q(1, 10), eps |-> I(0),
       m_1 |-> VConst(N + 2, I(0)), r |-> VConst(N + 2, I(1)),
       K |-> kernel([j \in 1..(N + 2) |-> j]),
       m_2 |-> VConst(M + 2, I(0)), R_in |-> VConst(M + 2, I(1)),
       u_0 |-> VConst(N + 2, I(1)), R_0 |-> VConst(M + 2, I(0))] }

\* Rows a caller passes to actualize_row: two of the expected length, one
\* of them negative, and one of the length of the other field (shorter
\* than a row of R, longer than a row of u).
InputRows(len, other) ==
    { VConst(len, I(1)), VConst(len, I(-2)), VConst(other, I(1)) }

\* ------------------------------------------- grid storage (discrete_function)
\* InitialDiscreteFunctionValidator: a (T+1)-row field, row 0 the initial
\* data, the other rows zero.
initial_field(steps, row_0) ==
    [t \in 0..steps |-> IF t = 0 THEN row_0 ELSE VConst(Len(row_0), I(0))]

zeros(steps, width) == [t \in 0..steps |-> VConst(width, I(0))]

\* _create_mask: a boolean matrix of the shape of the matrix, all False.
create_mask(matrix) ==
    [t \in DOMAIN matrix |-> [j \in 1..Len(matrix[t]) |-> FALSE]]

\* _update_mask_row(n, value): every entry of mask row n becomes value.
update_mask_row(mask, n, value) ==
    [mask EXCEPT ![n] = [j \in 1..Len(mask[n]) |-> value]]

\* _is_row_calculated(n): every entry of mask row n is True.
is_row_calculated(mask, n) == \A j \in 1..Len(mask[n]) : mask[n][j]

\* validate_nth_row(row, nth_row): the row has the shape of the n-th row.
validate_nth_row(row, nth_row) == Len(row) = Len(nth_row)

\* ------------------------------------------------------------ FunctionalF
FunctionalF_init(K, R_0, steps) ==
    LET matrix == zeros(steps, N + 2)
    IN  [K |-> K, R |-> initial_field(steps, R_0), matrix |-> matrix,
         mask |-> create_mask(matrix)]

\* Mutant: actualize_row that stores the row and keeps the mask.
FunctionalF_actualize_row_keeps_mask(self, row, n) ==
    IF ~validate_nth_row(row, self.R[n])
    THEN [obj |-> self, err |-> "ShapeMismatch"]
    ELSE [obj |-> [self EXCEPT !.R[n] = row], err |-> "none"]

\* Mutant: actualize_row without the shape validation.
FunctionalF_actualize_row_unchecked(self, row, n) ==
    [obj |-> [self EXCEPT !.R[n] = row,
                          !.mask = update_mask_row(self.mask, n, FALSE)],
     err |-> "none"]

\* actualize_row(row, n): the functional after the call, and the error raised.
FunctionalF_actualize_row(self, row, n) ==
    IF ~validate_nth_row(row, self.R[n])
    THEN [obj |-> self, err |-> "ShapeMismatch"]
    ELSE [obj |-> [self EXCEPT !.R[n] = row,
                               !.mask = update_mask_row(self.mask, n, FALSE)],
          err |-> "none"]

\* Mutant: __call__ that stores the value but does not mark the entry valid.
FunctionalF_call_unmarked(self, n, j) ==
    IF ~self.mask[n][j]
    THEN With(simpson(VMul(self.K[j], self.R[n]), y), LAMBDA integral_value :
            [obj |-> [self EXCEPT !.matrix[n][j] = integral_value],
             val |-> integral_value, quad |-> {<<n, j>>}])
    ELSE [obj |-> self, val |-> self.matrix[n][j], quad |-> {}]

\* Mutant: __call__ that marks the whole cache row valid.
FunctionalF_call_marks_row(self, n, j) ==
    IF ~self.mask[n][j]
    THEN With(simpson(VMul(self.K[j], self.R[n]), y), LAMBDA integral_value :
            [obj |-> [self EXCEPT !.matrix[n][j] = integral_value,
                                  !.mask = update_mask_row(self.mask, n, TRUE)],
             val |-> integral_value, quad |-> {<<n, j>>}])
    ELSE [obj |-> self, val |-> self.matrix[n][j], quad |-> {}]

\* __call__(n, j): the functional after the call, the value returned and
\* whether the quadrature ran.
FunctionalF_call(self, n, j) ==
    IF ~self.mask[n][j]
    THEN With(VMul(self.K[j], self.R[n]), LAMBDA array_to_integrate :
         With(simpson(array_to_integrate, y), LAMBDA integral_value :
            [obj |-> [self EXCEPT !.matrix[n][j] = integral_value,
                                  !.mask[n][j] = TRUE],
             val |-> integral_value, quad |-> {<<n, j>>}]))
    ELSE [obj |-> self, val |-> self.matrix[n][j], quad |-> {}]

\* ------------------------------------------------------------ FunctionalG
FunctionalG_init(r, K, u_0, steps) ==
    LET matrix == zeros(steps, M + 2)
    IN  [r |-> r, K |-> K, u |-> initial_field(steps, u_0), matrix |-> matrix,
         mask |-> create_mask(matrix)]

\* Mutant: actualize_row that stores the row and keeps the mask.
FunctionalG_actualize_row_keeps_mask(self, row, n) ==
    IF ~validate_nth_row(row, self.u[n])
    THEN [obj |-> self, err |-> "ShapeMismatch"]
    ELSE [obj |-> [self EXCEPT !.u[n] = row], err |-> "none"]

FunctionalG_actualize_row(self, row, n) ==
    IF ~validate_nth_row(row, self.u[n])
    THEN [obj |-> self, err |-> "ShapeMismatch"]
    ELSE [obj |-> [self EXCEPT !.u[n] = row,
                               !.mask = update_mask_row(self.mask, n, FALSE)],
          err |-> "none"]

\* K[:, k]: column k of the kernel.
column(K, k) == [j \in 1..Len(K) |-> K[j][k]]

FunctionalG_call(self, n, k) ==
    IF ~self.mask[n][k]
    THEN With(VMul(VMul(self.r, column(self.K, k)), self.u[n]), LAMBDA array_to_integrate :
         With(simpson(array_to_integrate, x), LAMBDA integral_value :
            [obj |-> [self EXCEPT !.matrix[n][k] = integral_value,
                                  !.mask[n][k] = TRUE],
             val |-> integral_value, quad |-> {<<n, k>>}]))
    ELSE [obj |-> self, val |-> self.matrix[n][k], quad |-> {}]

\* F[n], G[n] (__getitem__): the vector of the evaluations at (n, 1), ...,
\* (n, width), in this order, each one lazy and memoized as __call__ is.
RECURSIVE FunctionalF_row(_, _, _)
FunctionalF_row(self, n, j) ==
    IF j = 0 THEN [obj |-> self, val |-> <<>>, quad |-> {}, read |-> {n}]
    ELSE With(FunctionalF_row(self, n, j - 1), LAMBDA before :
         With(FunctionalF_call(before.obj, n, j), LAMBDA here :
            [obj |-> here.obj, val |-> Append(before.val, here.val),
             quad |-> before.quad \cup here.quad, read |-> before.read]))

FunctionalF_getitem(self, n) == FunctionalF_row(self, n, N + 2)

RECURSIVE FunctionalG_row(_, _, _)
FunctionalG_row(self, n, k) ==
    IF k = 0 THEN [obj |-> self, val |-> <<>>, quad |-> {}, read |-> {n}]
    ELSE With(FunctionalG_row(self, n, k - 1), LAMBDA before :
         With(FunctionalG_call(before.obj, n, k), LAMBDA here :
            [obj |-> here.obj, val |-> Append(before.val, here.val),
             quad |-> before.quad \cup here.quad, read |-> before.read]))

FunctionalG_getitem(self, n) == FunctionalG_row(self, n, M + 2)

\* ---------------------------------------------------------- AbstractSolver
is_next_step(self, n) == n <= self.current_step + 1

update_step(self, n) == [self EXCEPT !.current_step = n + 1]

\* -------------------------------------------------------- AbstractSolverU
AbstractSolverU_init(c, steps) ==
    LET u_field == initial_field(steps, c.u_0)
    IN  [r |-> c.r, u |-> u_field, R |-> initial_field(steps, c.R_0),
         current_step |-> 0, dt |-> c.dt,
         m_1 |-> c.m_1, eps |-> c.eps,
         F |-> FunctionalF_init(c.K, c.R_0, steps),
         mask |-> update_mask_row(create_mask(u_field), 0, TRUE)]

\* Mutant: actualize_row that leaves the solver's mask as it is.
AbstractSolverU_actualize_row_keeps_mask(self, row, n) ==
    IF ~validate_nth_row(row, self.R[n])
    THEN [obj |-> self, err |-> "ShapeMismatch"]
    ELSE With(FunctionalF_actualize_row(self.F, row, n), LAMBDA fwd :
            [obj |-> [self EXCEPT !.R[n] = row, !.F = fwd.obj], err |-> "none"])

\* Mutant: actualize_row that stores the row in the solver's own field.
AbstractSolverU_actualize_row_own_field(self, row, n) ==
    IF ~validate_nth_row(row, self.R[n])
    THEN [obj |-> self, err |-> "ShapeMismatch"]
    ELSE With(FunctionalF_actualize_row(self.F, row, n), LAMBDA fwd :
            [obj |-> [self EXCEPT !.u[n] = row, !.F = fwd.obj,
                                  !.mask = update_mask_row(self.mask, n, FALSE)],
             err |-> "none"])

\* actualize_row(row, n).  An error raised by the functional leaves the
\* assignment to _R[n] made before it in place.
AbstractSolverU_actualize_row(self, row, n) ==
    IF ~validate_nth_row(row, self.R[n])
    THEN [obj |-> self, err |-> "ShapeMismatch"]
    ELSE With(FunctionalF_actualize_row(self.F, row, n), LAMBDA fwd :
            IF fwd.err # "none"
            THEN [obj |-> [self EXCEPT !.R[n] = row], err |-> fwd.err]
            ELSE [obj |-> [self EXCEPT !.R[n] = row, !.F = fwd.obj,
                                       !.mask = update_mask_row(self.mask, n, FALSE)],
                  err |-> "none"])

\* ---------------------------------------------------------------- SolverU
\* Mutant: the sum of the np.diag matrices without the Neumann replacement.
transition_entry_plain(alpha, beta_array, i, j) ==
    IF j = i THEN beta_array[i]
    ELSE IF j = i + 1 \/ j = i - 1 THEN alpha
    ELSE I(0)

\* np.diag sums: entry (i, j) of lower_matrix + central_matrix + upper_matrix.
transition_entry(alpha, beta_array, i, j) ==
    IF j = i THEN beta_array[i]
    ELSE IF j = i + 1 THEN (IF i = 1 THEN QMul(I(2), alpha) ELSE alpha)
    ELSE IF j = i - 1 THEN (IF i = N + 2 THEN QMul(I(2), alpha) ELSE alpha)
    ELSE I(0)

\* Mutant: beta_array = 1 - alpha + dt * (-m_1 + r * F[n]).
central_diagonal_alpha(self, alpha, Fn) ==
    [i \in 1..(N + 2) |->
        QAdd(QSub(I(1), alpha),
             QMul(self.dt, QAdd(QNeg(self.m_1[i]), QMul(self.r[i], Fn[i]))))]

\* The central diagonal: beta_array = 1 - 2 * alpha + dt * (-m_1 + r * F[n]).
central_diagonal(self, alpha, Fn) ==
    [i \in 1..(N + 2) |->
        QAdd(QSub(I(1), QMul(I(2), alpha)),
             QMul(self.dt, QAdd(QNeg(self.m_1[i]), QMul(self.r[i], Fn[i]))))]

\* _create_transition_matrix(n): the solver after reading F[n], and the matrix.
SolverU_create_transition_matrix(self, n) ==
    With(QDiv(QMul(self.eps, self.dt), QMul(h1, h1)), LAMBDA alpha :
    With(FunctionalF_getitem(self.F, n), LAMBDA Fn :
    With(central_diagonal(self, alpha, Fn.val), LAMBDA beta_array :
        [obj |-> [self EXCEPT !.F = Fn.obj],
         val |-> [i \in 1..(N + 2) |-> [j \in 1..(N + 2) |->
                     transition_entry(alpha, beta_array, i, j)]],
         quad |-> Fn.quad, read |-> Fn.read])))

\* matrix.dot(vector)
dot(matrix, vector) == [i \in 1..Len(matrix) |-> VSum(VMul(matrix[i], vector))]

\* Mutant: actualize_step_np1 that stores the row and does not mark it.
SolverU_actualize_step_np1_unmarked(self, n) ==
    IF ~is_row_calculated(self.mask, n + 1)
    THEN With(SolverU_create_transition_matrix(self, n), LAMBDA tm :
         With(dot(tm.val, tm.obj.u[n]), LAMBDA row :
            [obj |-> [tm.obj EXCEPT !.u[n + 1] = row],
             val |-> row, quad |-> tm.quad, wrote |-> {n + 1}, read |-> tm.read]))
    ELSE [obj |-> self, val |-> self.u[n + 1], quad |-> {}, wrote |-> {}, read |-> {}]

\* Mutant: actualize_step_np1 that stores and marks row n in place of row n + 1.
SolverU_actualize_step_np1_row_n(self, n) ==
    IF ~is_row_calculated(self.mask, n + 1)
    THEN With(SolverU_create_transition_matrix(self, n), LAMBDA tm :
         With(dot(tm.val, tm.obj.u[n]), LAMBDA row :
            [obj |-> [tm.obj EXCEPT !.u[n] = row,
                                    !.mask = update_mask_row(tm.obj.mask, n, TRUE)],
             val |-> row, quad |-> tm.quad, wrote |-> {n}, read |-> tm.read]))
    ELSE [obj |-> self, val |-> self.u[n + 1], quad |-> {}, wrote |-> {}, read |-> {}]

\* actualize_step_np1(n): the solver after the call, the row returned, the
\* quadratures run, the rows of u written and the functional rows read.
SolverU_actualize_step_np1(self, n) ==
    IF ~is_row_calculated(self.mask, n + 1)
    THEN With(SolverU_create_transition_matrix(self, n), LAMBDA tm :
         With(dot(tm.val, tm.obj.u[n]), LAMBDA row :
            [obj |-> [tm.obj EXCEPT !.u[n + 1] = row,
                                    !.mask = update_mask_row(tm.obj.mask, n + 1, TRUE)],
             val |-> row, quad |-> tm.quad, wrote |-> {n + 1}, read |-> tm.read]))
    ELSE [obj |-> self, val |-> self.u[n + 1], quad |-> {}, wrote |-> {}, read |-> {}]

\* -------------------------------------------------------- AbstractSolverR
AbstractSolverR_init(c, steps, method) ==
    LET R_field == initial_field(steps, c.R_0)
    IN  [u |-> initial_field(steps, c.u_0), R |-> R_field,
         current_step |-> 0, dt |-> c.dt,
         m_2 |-> c.m_2, R_in |-> c.R_in,
         G |-> FunctionalG_init(c.r, c.K, c.u_0, steps),
         mask |-> update_mask_row(create_mask(R_field), 0, TRUE),
         method |-> method]

\* Mutant: actualize_row that assigns _u[n] before it validates the row.
AbstractSolverR_actualize_row_assign_first(self, row, n) ==
    IF ~validate_nth_row(row, self.u[n])
    THEN [obj |-> [self EXCEPT !.u[n] = row], err |-> "ShapeMismatch"]
    ELSE With(FunctionalG_actualize_row(self.G, row, n), LAMBDA fwd :
            [obj |-> [self EXCEPT !.u[n] = row, !.G = fwd.obj,
                                  !.mask = update_mask_row(self.mask, n, FALSE)],
             err |-> "none"])

\* Mutant: actualize_row that does not forward the row to G.
AbstractSolverR_actualize_row_not_forwarded(self, row, n) ==
    IF ~validate_nth_row(row, self.u[n])
    THEN [obj |-> self, err |-> "ShapeMismatch"]
    ELSE [obj |-> [self EXCEPT !.u[n] = row,
                               !.mask = update_mask_row(self.mask, n, FALSE)],
          err |-> "none"]

AbstractSolverR_actualize_row(self, row, n) ==
    IF ~validate_nth_row(row, self.u[n])
    THEN [obj |-> self, err |-> "ShapeMismatch"]
    ELSE With(FunctionalG_actualize_row(self.G, row, n), LAMBDA fwd :
            IF fwd.err # "none"
            THEN [obj |-> [self EXCEPT !.u[n] = row], err |-> fwd.err]
            ELSE [obj |-> [self EXCEPT !.u[n] = row, !.G = fwd.obj,
                                       !.mask = update_mask_row(self.mask, n, FALSE)],
                  err |-> "none"])

\* --------------------------------------------------------- SolverRMethod1
\* (1 - dt * (m_2 + G[n])) * R[n] + dt * R_in
method1_row(self, Gn, n) ==
    VAdd(VMul(VSub(VConst(M + 2, I(1)), VScale(self.dt, VAdd(self.m_2, Gn))),
              self.R[n]),
         VScale(self.dt, self.R_in))

SolverRMethod1_actualize_step_np1(self, n) ==
    IF ~is_row_calculated(self.mask, n + 1)
    THEN With(FunctionalG_getitem(self.G, n), LAMBDA Gn :
         With(method1_row(self, Gn.val, n), LAMBDA row :
            [obj |-> [self EXCEPT !.G = Gn.obj, !.R[n + 1] = row,
                                  !.mask = update_mask_row(self.mask, n + 1, TRUE)],
             val |-> row, quad |-> Gn.quad, wrote |-> {n + 1}, read |-> Gn.read]))
    ELSE [obj |-> self, val |-> self.R[n + 1], quad |-> {}, wrote |-> {}, read |-> {}]

\* --------------------------------------------------------- SolverRMethod2
\* Mutant: R_in / (m_2 - G_np1).
method2_row_minus(self, G_np1) == VDiv(self.R_in, VSub(self.m_2, G_np1))

\* R_in / (m_2 + G_np1)
method2_row(self, G_np1) == VDiv(self.R_in, VAdd(self.m_2, G_np1))

SolverRMethod2_actualize_step_np1(self, n) ==
    IF ~is_row_calculated(self.mask, n + 1)
    THEN With(FunctionalG_getitem(self.G, n + 1), LAMBDA G_np1 :
         With(method2_row(self, G_np1.val), LAMBDA R_np1 :
            [obj |-> [self EXCEPT !.G = G_np1.obj, !.R[n + 1] = R_np1,
                                  !.mask = update_mask_row(self.mask, n + 1, TRUE)],
             val |-> R_np1, quad |-> G_np1.quad, wrote |-> {n + 1},
             read |-> G_np1.read]))
    ELSE [obj |-> self, val |-> self.R[n + 1], quad |-> {}, wrote |-> {}, read |-> {}]

\* The scheme chosen at construction (solver_R).
SolverR_actualize_step_np1(self, n) ==
    IF self.method = 1 THEN SolverRMethod1_actualize_step_np1(self, n)
    ELSE SolverRMethod2_actualize_step_np1(self, n)

\* ------------------------------------------------------------------ state
\* args     the coefficient arrays and initial data given at construction
\* T        number of time steps the objects were constructed with
\* u        the SolverU object (its functional _F is the field F)
\* R        the SolverR object (its functional _G is the field G)
\* drv      solve_perthame: its position, loop variable and call count
\* sut      which object's operations the run exercises
\* ops      number of operations performed so far
\* lastOp   the last operation: its arguments, error, returned value, the
\*          quadratures it ran, the rows of the own field it wrote, the
\*          functional rows it read
\* obs      per functional entry: quadratures run since the last
\*          actualize_row of its row (capped at 2), and the first value
\* writes   the writes to rows of u's and R's own fields, in order
\* supplied the rows handed to each solver through actualize_row
VARIABLES args, T, u, R, drv, sut, ops, lastOp, obs, writes, supplied

vars == <<args, T, u, R, drv, sut, ops, lastOp, obs, writes, supplied>>

NoOp == [op |-> "init", n |-> -1, j |-> 0, row |-> <<>>, err |-> "none",
         val |-> <<>>, quad |-> {}, wrote |-> {}, read |-> {}, again |-> FALSE,
         before |-> I(0)]

Op(op, n, res) ==
    [NoOp EXCEPT !.op = op, !.n = n,
                 !.again = (lastOp.op = op /\ lastOp.n = n), !.val = res.val,
                 !.quad = res.quad, !.wrote = res.wrote, !.read = res.read]

NoObs(width) == [t \in 0..T |-> [j \in 1..width |-> [count |-> 0, first |-> I(0)]]]

\* The counters after quadratures `quad` stored their values in `matrix`.
ObsQuad(o, quad, matrix) ==
    [t \in DOMAIN o |-> [j \in DOMAIN o[t] |->
        IF <<t, j>> \in quad
        THEN [count |-> IF o[t][j].count < 2 THEN o[t][j].count + 1 ELSE 2,
              first |-> IF o[t][j].count = 0 THEN matrix[t][j] ELSE o[t][j].first]
        ELSE o[t][j]]]

\* The counters after actualize_row on row n.
ObsReset(o, n) == [o EXCEPT ![n] = [j \in DOMAIN o[n] |-> [count |-> 0, first |-> I(0)]]]

\* The log after a call that wrote the rows `wrote` (at most one) of `field`.
Logged(log, field, wrote) ==
    IF wrote = {} THEN log ELSE Append(log, <<field, CHOOSE k \in wrote : TRUE>>)

InitWith(target, configs, steps, methods) ==
    /\ args \in {c \in Configs : c.name \in configs}
    /\ T \in steps
    /\ sut = target
    /\ u = AbstractSolverU_init(args, T)
    /\ \E method \in methods : R = AbstractSolverR_init(args, T, method)
    /\ drv = [pc |-> "for", n |-> 0, calls |-> 0]
    /\ ops = 0
    /\ lastOp = NoOp
    /\ obs = [F |-> NoObs(N + 2), G |-> NoObs(M + 2)]
    /\ writes = <<>>
    /\ supplied = [u |-> {}, R |-> {}]

\* ------------------------------------------- operations on the functionals
F_actualize_row(row, n) ==
    /\ sut = "F" /\ ops < MaxOps
    /\ \E res \in {FunctionalF_actualize_row(u.F, row, n)} :
           /\ u' = [u EXCEPT !.F = res.obj]
           /\ lastOp' = [NoOp EXCEPT !.op = "F.actualize_row", !.n = n, !.row = row,
                                     !.err = res.err]
           /\ obs' = IF res.err = "none" THEN [obs EXCEPT !.F = ObsReset(obs.F, n)]
                     ELSE obs
    /\ ops' = ops + 1
    /\ UNCHANGED <<args, T, R, drv, sut, writes, supplied>>

F_call(n, j) ==
    /\ sut = "F" /\ ops < MaxOps
    /\ \E res \in {FunctionalF_call(u.F, n, j)} :
           /\ u' = [u EXCEPT !.F = res.obj]
           /\ lastOp' = [NoOp EXCEPT !.op = "F.call", !.n = n, !.j = j, !.val = res.val,
                                     !.quad = res.quad, !.before = u.F.matrix[n][j],
                                     !.again = (lastOp.op = "F.call" /\ lastOp.n = n
                                                /\ lastOp.j = j)]
           /\ obs' = [obs EXCEPT !.F = ObsQuad(obs.F, res.quad, res.obj.matrix)]
    /\ ops' = ops + 1
    /\ UNCHANGED <<args, T, R, drv, sut, writes, supplied>>

G_actualize_row(row, n) ==
    /\ sut = "G" /\ ops < MaxOps
    /\ \E res \in {FunctionalG_actualize_row(R.G, row, n)} :
           /\ R' = [R EXCEPT !.G = res.obj]
           /\ lastOp' = [NoOp EXCEPT !.op = "G.actualize_row", !.n = n, !.row = row,
                                     !.err = res.err]
           /\ obs' = IF res.err = "none" THEN [obs EXCEPT !.G = ObsReset(obs.G, n)]
                     ELSE obs
    /\ ops' = ops + 1
    /\ UNCHANGED <<args, T, u, drv, sut, writes, supplied>>

G_call(n, k) ==
    /\ sut = "G" /\ ops < MaxOps
    /\ \E res \in {FunctionalG_call(R.G, n, k)} :
           /\ R' = [R EXCEPT !.G = res.obj]
           /\ lastOp' = [NoOp EXCEPT !.op = "G.call", !.n = n, !.j = k, !.val = res.val,
                                     !.quad = res.quad, !.before = R.G.matrix[n][k],
                                     !.again = (lastOp.op = "G.call" /\ lastOp.n = n
                                                /\ lastOp.j = k)]
           /\ obs' = [obs EXCEPT !.G = ObsQuad(obs.G, res.quad, res.obj.matrix)]
    /\ ops' = ops + 1
    /\ UNCHANGED <<args, T, u, drv, sut, writes, supplied>>

\* ----------------------------------------------- operations on the solvers
\* What a solver call leaves in u, lastOp, obs, writes and supplied.
U_row_effect(row, n) ==
    \E res \in {AbstractSolverU_actualize_row(u, row, n)} :
        /\ u' = res.obj
        /\ lastOp' = [NoOp EXCEPT !.op = "u.actualize_row", !.n = n, !.row = row,
                                  !.err = res.err]
        /\ obs' = IF res.err = "none" THEN [obs EXCEPT !.F = ObsReset(obs.F, n)]
                  ELSE obs
        /\ supplied' = IF res.err = "none" THEN [supplied EXCEPT !.u = @ \cup {n}]
                       ELSE supplied
        /\ UNCHANGED <<R, writes>>

U_step_effect(n) ==
    \E res \in {SolverU_actualize_step_np1(u, n)} :
        /\ u' = res.obj
        /\ lastOp' = Op("u.actualize_step_np1", n, res)
        /\ obs' = [obs EXCEPT !.F = ObsQuad(obs.F, res.quad, res.obj.F.matrix)]
        /\ writes' = Logged(writes, "u", res.wrote)
        /\ UNCHANGED <<R, supplied>>

R_row_effect(row, n) ==
    \E res \in {AbstractSolverR_actualize_row(R, row, n)} :
        /\ R' = res.obj
        /\ lastOp' = [NoOp EXCEPT !.op = "R.actualize_row", !.n = n, !.row = row,
                                  !.err = res.err]
        /\ obs' = IF res.err = "none" THEN [obs EXCEPT !.G = ObsReset(obs.G, n)]
                  ELSE obs
        /\ supplied' = IF res.err = "none" THEN [supplied EXCEPT !.R = @ \cup {n}]
                       ELSE supplied
        /\ UNCHANGED <<u, writes>>

R_step_effect(n) ==
    \E res \in {SolverR_actualize_step_np1(R, n)} :
        /\ R' = res.obj
        /\ lastOp' = Op("R.actualize_step_np1", n, res)
        /\ obs' = [obs EXCEPT !.G = ObsQuad(obs.G, res.quad, res.obj.G.matrix)]
        /\ writes' = Logged(writes, "R", res.wrote)
        /\ UNCHANGED <<u, supplied>>

U_actualize_row(row, n) ==
    /\ sut = "U" /\ ops < MaxOps
    /\ U_row_effect(row, n)
    /\ ops' = ops + 1
    /\ UNCHANGED <<args, T, drv, sut>>

U_actualize_step_np1(n) ==
    /\ sut = "U" /\ ops < MaxOps
    /\ U_step_effect(n)
    /\ ops' = ops + 1
    /\ UNCHANGED <<args, T, drv, sut>>

R_actualize_row(row, n) ==
    /\ sut = "R" /\ ops < MaxOps
    /\ R_row_effect(row, n)
    /\ ops' = ops + 1
    /\ UNCHANGED <<args, T, drv, sut>>

R_actualize_step_np1(n) ==
    /\ sut = "R" /\ ops < MaxOps
    /\ R_step_effect(n)
    /\ ops' = ops + 1
    /\ UNCHANGED <<args, T, drv, sut>>

\* --------------------------------------------------------- solve_perthame
\* Mutant: for n in range(T - 1).
solve_for_short ==
    /\ drv.pc = "for"
    /\ drv' = [drv EXCEPT !.pc = IF drv.n < T - 1 THEN "u.actualize_row" ELSE "return"]
    /\ UNCHANGED <<args, T, u, R, sut, ops, lastOp, obs, writes, supplied>>

\* for n in range(T): enter the body, or return u, R.
solve_for ==
    /\ drv.pc = "for"
    /\ drv' = [drv EXCEPT !.pc = IF drv.n < T THEN "u.actualize_row" ELSE "return"]
    /\ UNCHANGED <<args, T, u, R, sut, ops, lastOp, obs, writes, supplied>>

\* u.actualize_row(R[n], n)
solve_u_actualize_row ==
    /\ drv.pc = "u.actualize_row"
    /\ U_row_effect(R.R[drv.n], drv.n)
    /\ drv' = [drv EXCEPT !.pc = IF lastOp'.err = "none" THEN "u.actualize_step_np1"
                                 ELSE "raised",
                          !.calls = @ + 1]
    /\ UNCHANGED <<args, T, sut, ops>>

\* u.actualize_step_np1(n)
solve_u_actualize_step_np1 ==
    /\ drv.pc = "u.actualize_step_np1"
    /\ U_step_effect(drv.n)
    /\ drv' = [drv EXCEPT !.pc = "R.actualize_row", !.calls = @ + 1]
    /\ UNCHANGED <<args, T, sut, ops>>

\* Mutant: R.actualize_row(u[n], n).
solve_R_actualize_row_n ==
    /\ drv.pc = "R.actualize_row"
    /\ R_row_effect(u.u[drv.n], drv.n)
    /\ drv' = [drv EXCEPT !.pc = IF lastOp'.err = "none" THEN "R.actualize_step_np1"
                                 ELSE "raised",
                          !.calls = @ + 1]
    /\ UNCHANGED <<args, T, sut, ops>>

\* R.actualize_row(u[n + 1], n + 1)
solve_R_actualize_row ==
    /\ drv.pc = "R.actualize_row"
    /\ R_row_effect(u.u[drv.n + 1], drv.n + 1)
    /\ drv' = [drv EXCEPT !.pc = IF lastOp'.err = "none" THEN "R.actualize_step_np1"
                                 ELSE "raised",
                          !.calls = @ + 1]
    /\ UNCHANGED <<args, T, sut, ops>>

\* R.actualize_step_np1(n), then the next n
solve_R_actualize_step_np1 ==
    /\ drv.pc = "R.actualize_step_np1"
    /\ R_step_effect(drv.n)
    /\ drv' = [drv EXCEPT !.pc = "for", !.n = @ + 1, !.calls = @ + 1]
    /\ UNCHANGED <<args, T, sut, ops>>

\* --------------------------------------------------------- specifications
FunctionalInit ==
    \/ InitWith("F", {"example"}, {FuncT}, {1})
    \/ InitWith("G", {"example"}, {FuncT}, {1})

FunctionalNext ==
    \/ \E n \in 0..T, row \in InputRows(M + 2, N + 2) : F_actualize_row(row, n)
    \/ \E n \in 0..T, j \in 1..(N + 2) : F_call(n, j)
    \/ \E n \in 0..T, row \in InputRows(N + 2, M + 2) : G_actualize_row(row, n)
    \/ \E n \in 0..T, k \in 1..(M + 2) : G_call(n, k)

\* Any sequence of actualize_row and evaluations on a functional.
FunctionalSpec == FunctionalInit /\ [][FunctionalNext]_vars

AllConfigs == {c.name : c \in Configs}

\* The configuration a solver is exercised with on its own.
SolverConfigs == {"diffusive"}

SolverInit ==
    \/ InitWith("U", SolverConfigs, {MaxT}, {1})
    \/ InitWith("R", SolverConfigs, {MaxT}, {1, 2})

SolverNext ==
    \/ \E n \in 0..T, row \in InputRows(M + 2, N + 2) : U_actualize_row(row, n)
    \/ \E n \in 0..(T - 1) : U_actualize_step_np1(n)
    \/ \E n \in 0..T, row \in InputRows(N + 2, M + 2) : R_actualize_row(row, n)
    \/ \E n \in 0..(T - 1) : R_actualize_step_np1(n)

\* Any sequence of actualize_row and actualize_step_np1 on a solver.
SolverSpec == SolverInit /\ [][SolverNext]_vars

DriverInit == InitWith("solve_perthame", AllConfigs, 0..MaxT, {1, 2})

DriverNext ==
    \/ solve_for
    \/ solve_u_actualize_row
    \/ solve_u_actualize_step_np1
    \/ solve_R_actualize_row
    \/ solve_R_actualize_step_np1

\* A run of solve_perthame.
DriverSpec == DriverInit /\ [][DriverNext]_vars

\* solve_perthame is sequential code: it keeps running until it returns.
DriverFairSpec == DriverSpec /\ WF_vars(DriverNext)

\* The value of a keyword argument the caller did not pass (y_lims=None,
\* M=None); an argument that was passed is held as <<value>>.
None == <<>>

\* np.linspace(*y_lims, M + 2), and with the meshes the construction of the
\* solvers.  Unpacking None, and None + 2, raise TypeError.
solve_linspace ==
    /\ drv.pc = "linspace"
    /\ IF drv.y_lims = None \/ drv.M = None
       THEN /\ drv' = [drv EXCEPT !.pc = "raised"]
            /\ lastOp' = [NoOp EXCEPT !.op = "np.linspace", !.err = "TypeError"]
            /\ UNCHANGED <<u, R>>
       ELSE /\ drv' = [drv EXCEPT !.pc = "for"]
            /\ lastOp' = [NoOp EXCEPT !.op = "np.linspace"]
            /\ u' = AbstractSolverU_init(args, T)
            /\ R' = AbstractSolverR_init(args, T, drv.solver_R)
    /\ UNCHANGED <<args, T, sut, ops, obs, writes, supplied>>

\* A call of solve_perthame, with y_lims and M passed or left out.
CallInit ==
    /\ args \in Configs
    /\ T \in 0..MaxT
    /\ sut = "solve_perthame"
    /\ u = None /\ R = None
    /\ \E yl \in {None, <<y_lims>>}, m \in {None, <<M>>}, method \in {1, 2} :
          drv = [pc |-> "linspace", n |-> 0, calls |-> 0,
                 y_lims |-> yl, M |-> m, solver_R |-> method]
    /\ ops = 0
    /\ lastOp = NoOp
    /\ obs = [F |-> NoObs(N + 2), G |-> NoObs(M + 2)]
    /\ writes = <<>>
    /\ supplied = [u |-> {}, R |-> {}]

CallNext == solve_linspace \/ DriverNext

\* solve_perthame from its call on.
CallSpec == CallInit /\ [][CallNext]_vars

\* A solver with one more time step, so that a call can skip a step:
\* actualize_step_np1(n) with n > current_step + 1.
GateInit ==
    \/ InitWith("U", SolverConfigs, {MaxT + 1}, {1})
    \/ InitWith("R", SolverConfigs, {MaxT + 1}, {1, 2})

GateSpec == GateInit /\ [][SolverNext]_vars

\* Any sequence of calls on one object: a functional or a solver.
ObjectSpec == (FunctionalInit \/ SolverInit) /\ [][FunctionalNext \/ SolverNext]_vars

Spec == DriverSpec

\* ------------------------------------------------------------ properties
Written(field, k) == \E i \in 1..Len(writes) : writes[i] = <<field, k>>

Count(field) == Cardinality({i \in 1..Len(writes) : writes[i][1] = field})

Positive(row) == \A i \in 1..Len(row) : QPos(row[i])

NonNegative(row) == \A i \in 1..Len(row) : QNonNeg(row[i])

StepOps == {"u.actualize_step_np1", "R.actualize_step_np1"}

\* C1: between two actualize_row on its row, every functional entry has its
\* quadrature run at most once; an evaluation leaves the count at exactly
\* one and returns the value the first evaluation computed, and an
\* evaluation repeated at once runs no quadrature.
C1_Memoization ==
    /\ \A t \in 0..T :
          /\ \A j \in 1..(N + 2) : obs.F[t][j].count <= 1
          /\ \A k \in 1..(M + 2) : obs.G[t][k].count <= 1
    /\ lastOp.op = "F.call" =>
          /\ obs.F[lastOp.n][lastOp.j].count = 1
          /\ lastOp.val = obs.F[lastOp.n][lastOp.j].first
          /\ lastOp.again => lastOp.quad = {}
    /\ lastOp.op = "G.call" =>
          /\ obs.G[lastOp.n][lastOp.j].count = 1
          /\ lastOp.val = obs.G[lastOp.n][lastOp.j].first
          /\ lastOp.again => lastOp.quad = {}

\* F was evaluated twice in a row at an entry whose integral is not zero.
C1_Witness == lastOp.op = "F.call" /\ lastOp.again /\ lastOp.val # I(0)

\* C2: a successful actualize_row(new_row, n) on a functional leaves every
\* mask entry of row n False and new_row stored as dependency row n, and an
\* evaluation at (n, index) that follows it runs the quadrature and returns
\* the integral of new_row.
C2_Invalidation ==
    [][ /\ (lastOp'.op = "F.actualize_row" /\ lastOp'.err = "none") =>
              /\ \A j \in 1..(N + 2) : ~u'.F.mask[lastOp'.n][j]
              /\ u'.F.R[lastOp'.n] = lastOp'.row
        /\ (lastOp'.op = "G.actualize_row" /\ lastOp'.err = "none") =>
              /\ \A k \in 1..(M + 2) : ~R'.G.mask[lastOp'.n][k]
              /\ R'.G.u[lastOp'.n] = lastOp'.row
        /\ (/\ lastOp.op = "F.actualize_row" /\ lastOp.err = "none"
            /\ lastOp'.op = "F.call" /\ lastOp'.n = lastOp.n) =>
              /\ lastOp'.quad = {<<lastOp'.n, lastOp'.j>>}
              /\ lastOp'.val = simpson(VMul(u.F.K[lastOp'.j], lastOp.row), y)
        /\ (/\ lastOp.op = "G.actualize_row" /\ lastOp.err = "none"
            /\ lastOp'.op = "G.call" /\ lastOp'.n = lastOp.n) =>
              /\ lastOp'.quad = {<<lastOp'.n, lastOp'.j>>}
              /\ lastOp'.val = simpson(VMul(VMul(R.G.r, column(R.G.K, lastOp'.j)),
                                            lastOp.row), x)
      ]_vars

\* G recomputed an entry that held another, non-zero value cached before
\* the row was replaced.
C2_Witness ==
    /\ lastOp.op = "G.call" /\ lastOp.quad # {}
    /\ lastOp.before # I(0) /\ lastOp.val # lastOp.before

ExpectedLen(op) ==
    IF op \in {"F.actualize_row", "u.actualize_row"} THEN M + 2 ELSE N + 2

\* C3: actualize_row, on a functional and on a solver, raises ShapeMismatch
\* for every row whose length is not the mesh dimension of the field it
\* updates (M + 2 for a row of R, N + 2 for a row of u), at any time index.
C3_ShapeContract ==
    (/\ lastOp.op \in {"F.actualize_row", "G.actualize_row",
                       "u.actualize_row", "R.actualize_row"}
     /\ Len(lastOp.row) # ExpectedLen(lastOp.op))
    => lastOp.err = "ShapeMismatch"

\* FunctionalF was given a row of the length of u in place of a row of R.
C3_Witness ==
    /\ lastOp.op = "F.actualize_row" /\ Len(lastOp.row) = N + 2
    /\ lastOp.err = "ShapeMismatch"

\* C4: actualize_step_np1(n) on a row n + 1 already marked computed returns
\* it and changes nothing; otherwise it stores the row it returns as row
\* n + 1 and marks it computed; a second call right after the first changes
\* neither solver nor functional and returns the same row.
C4_StepIdempotent ==
    [][ /\ lastOp'.op = "u.actualize_step_np1" =>
              IF is_row_calculated(u.mask, lastOp'.n + 1)
              THEN /\ u' = u /\ lastOp'.val = u.u[lastOp'.n + 1]
                   /\ lastOp'.wrote = {} /\ lastOp'.quad = {}
              ELSE /\ is_row_calculated(u'.mask, lastOp'.n + 1)
                   /\ u'.u[lastOp'.n + 1] = lastOp'.val
                   /\ lastOp'.wrote = {lastOp'.n + 1}
        /\ lastOp'.op = "R.actualize_step_np1" =>
              IF is_row_calculated(R.mask, lastOp'.n + 1)
              THEN /\ R' = R /\ lastOp'.val = R.R[lastOp'.n + 1]
                   /\ lastOp'.wrote = {} /\ lastOp'.quad = {}
              ELSE /\ is_row_calculated(R'.mask, lastOp'.n + 1)
                   /\ R'.R[lastOp'.n + 1] = lastOp'.val
                   /\ lastOp'.wrote = {lastOp'.n + 1}
        /\ (lastOp'.op \in StepOps /\ lastOp'.again) =>
              /\ u' = u /\ R' = R /\ obs' = obs /\ writes' = writes
              /\ lastOp'.val = lastOp.val
      ]_vars

\* SolverU was stepped twice in a row from the same n, to a row that is not
\* the zero row.
C4_Witness ==
    /\ lastOp.op = "u.actualize_step_np1" /\ lastOp.again
    /\ lastOp.val # VConst(N + 2, I(0))

\* C5: in a run of solve_perthame the rows of the two fields are written in
\* the order u[1], R[1], u[2], R[2], ..., each once, and on return all of
\* u[1..T] and R[1..T] have been written.
C5_WriteOrder ==
    /\ \A i \in 1..Len(writes) :
          writes[i] = <<IF i % 2 = 1 THEN "u" ELSE "R", (i + 1) \div 2>>
    /\ drv.pc = "return" => Len(writes) = 2 * T

\* A run of at least two steps has returned.
C5_Witness == drv.pc = "return" /\ T >= 2 /\ Len(writes) = 2 * T

\* C6: in a run of solve_perthame, a step of u reads F at row n only, and
\* row n is 0 or R's written row n, supplied to SolverU and held by F; a
\* step of R reads G at row k only (k = n for scheme 1, n + 1 for scheme 2),
\* and row k is 0 or u's written row k, supplied to SolverR and held by G.
C6_Dependencies ==
    /\ lastOp.op = "u.actualize_step_np1" =>
          \A k \in lastOp.read :
             /\ k = lastOp.n
             /\ k = 0 \/ (k \in supplied.u /\ Written("R", k) /\ u.F.R[k] = R.R[k])
    /\ lastOp.op = "R.actualize_step_np1" =>
          \A k \in lastOp.read :
             /\ k = IF R.method = 1 THEN lastOp.n ELSE lastOp.n + 1
             /\ k = 0 \/ (k \in supplied.R /\ Written("u", k) /\ R.G.u[k] = u.u[k])

\* Scheme 2 evaluated G one row ahead, past the first step.
C6_Witness ==
    /\ lastOp.op = "R.actualize_step_np1" /\ R.method = 2
    /\ lastOp.n >= 1 /\ lastOp.read = {lastOp.n + 1} /\ lastOp.quad # {}

\* C7: current_step counts the rows a solver has produced: it advances by
\* one on every actualize_step_np1 that produces a row, and only then.
C7_StepCounter ==
    /\ u.current_step = Count("u")
    /\ R.current_step = Count("R")

\* What solve_perthame has done when it returns.
Returned ==
    /\ drv.n = T /\ drv.calls = 4 * T
    /\ u.u[0] = args.u_0 /\ R.R[0] = args.R_0
    /\ \A k \in 1..T : Written("u", k) /\ Written("R", k)

\* C8: solve_perthame returns, for every T >= 0, after T iterations of four
\* solver calls, with row 0 of each field the initial data and rows 1..T
\* written by actualize_step_np1.
C8_Termination == <>(drv.pc = "return") /\ [](drv.pc = "return" => Returned)

\* A run with at least one iteration has returned after its 4 * T calls.
C8_Witness == drv.pc = "return" /\ T >= 1 /\ drv.calls = 4 * T /\ drv.n = T

\* A producing step of scheme 2 with R_in and m_2 strictly positive.
Scheme2Produced ==
    /\ lastOp.op = "R.actualize_step_np1" /\ R.method = 2 /\ lastOp.wrote # {}
    /\ Positive(R.R_in) /\ Positive(R.m_2)

\* C9 as stated: with R_in and m_2 strictly positive, the row produced by
\* scheme 2 is well defined and non-negative for every row of u.
C9_Original == Scheme2Produced => NonNegative(lastOp.val)

\* C9 as amended: with R_in and m_2 strictly positive and every component of
\* G[n + 1] non-negative, the row produced by scheme 2 is well defined and
\* non-negative.
C9_Amended ==
    (Scheme2Produced /\ NonNegative(R.G.matrix[lastOp.n + 1]))
    => NonNegative(lastOp.val)

\* Scheme 2 produced a row from a G[n + 1] that is non-negative and not zero.
C9_Witness ==
    /\ Scheme2Produced /\ NonNegative(R.G.matrix[lastOp.n + 1])
    /\ \E k \in 1..(M + 2) : QPos(R.G.matrix[lastOp.n + 1][k])
    /\ NonNegative(lastOp.val)

\* C10: an evaluation of a functional at (n, index) leaves the dependency
\* field and the kernel (and r) as they were, and changes no cache entry and
\* no mask entry other than the one at (n, index).
C10_Frame ==
    [][ /\ lastOp'.op = "F.call" =>
              /\ u'.F.R = u.F.R /\ u'.F.K = u.F.K
              /\ \A t \in 0..T, j \in 1..(N + 2) :
                    <<t, j>> # <<lastOp'.n, lastOp'.j>> =>
                       /\ u'.F.matrix[t][j] = u.F.matrix[t][j]
                       /\ u'.F.mask[t][j] = u.F.mask[t][j]
        /\ lastOp'.op = "G.call" =>
              /\ R'.G.u = R.G.u /\ R'.G.K = R.G.K /\ R'.G.r = R.G.r
              /\ \A t \in 0..T, k \in 1..(M + 2) :
                    <<t, k>> # <<lastOp'.n, lastOp'.j>> =>
                       /\ R'.G.matrix[t][k] = R.G.matrix[t][k]
                       /\ R'.G.mask[t][k] = R.G.mask[t][k]
      ]_vars

\* F ran a quadrature while another entry of its cache was valid.
C10_Witness ==
    /\ lastOp.op = "F.call" /\ lastOp.quad # {}
    /\ \E t \in 0..T, j \in 1..(N + 2) :
          <<t, j>> # <<lastOp.n, lastOp.j>> /\ u.F.mask[t][j]

\* C11: row 0 of a solver's own field is the initial condition in every
\* state that calls of actualize_row(row, n), 0 <= n <= T, and of
\* actualize_step_np1(n), 0 <= n <= T - 1, can reach.
C11_RowZero == u.u[0] = args.u_0 /\ R.R[0] = args.R_0

\* SolverU was given a companion row at index 0 and stepped from row 0 to a
\* row 1 that differs from it.
C11_Witness ==
    /\ lastOp.op = "u.actualize_step_np1" /\ lastOp.n = 0 /\ lastOp.wrote = {1}
    /\ 0 \in supplied.u /\ u.u[0] = args.u_0 /\ u.u[1] # u.u[0]

\* C12: a call of solve_perthame that passes neither y_lims nor M does not
\* fail: it builds the meshes with y_lims = x_lims and M = N, and goes on to
\* the loop and the return.
C12_Defaults == (drv.y_lims = None /\ drv.M = None) => drv.pc # "raised"

\* C13: the gate is_next_step catches a skipped step: a call
\* actualize_step_np1(n) with n > current_step + 1 neither computes nor
\* marks row n + 1.
C13_Gate ==
    [][ /\ (lastOp'.op = "u.actualize_step_np1" /\ ~is_next_step(u, lastOp'.n)) =>
              /\ lastOp'.wrote = {} /\ u'.u = u.u /\ u'.mask = u.mask
        /\ (lastOp'.op = "R.actualize_step_np1" /\ ~is_next_step(R, lastOp'.n)) =>
              /\ lastOp'.wrote = {} /\ R'.R = R.R /\ R'.mask = R.mask
      ]_vars

\* Every valid entry of the two caches is the quadrature of the dependency
\* row the functional holds.
Coherent ==
    /\ \A t \in 0..T, j \in 1..(N + 2) :
          u.F.mask[t][j] => u.F.matrix[t][j] = simpson(VMul(u.F.K[j], u.F.R[t]), y)
    /\ \A t \in 0..T, k \in 1..(M + 2) :
          R.G.mask[t][k] =>
             R.G.matrix[t][k] = simpson(VMul(VMul(R.G.r, column(R.G.K, k)), R.G.u[t]), x)

\* C14: in every state that actualize_row and evaluations of a functional
\* can reach, a cache entry whose mask is True is the quadrature of the
\* dependency row n the functional holds, and a mask entry goes from True
\* to False only by a successful actualize_row on its row n.
C14_CacheCoherence ==
    /\ []Coherent
    /\ [][ /\ \A t \in 0..T, j \in 1..(N + 2) :
                (u.F.mask[t][j] /\ ~u'.F.mask[t][j]) =>
                   (lastOp'.op = "F.actualize_row" /\ lastOp'.n = t
                    /\ lastOp'.err = "none")
           /\ \A t \in 0..T, k \in 1..(M + 2) :
                (R.G.mask[t][k] /\ ~R'.G.mask[t][k]) =>
                   (lastOp'.op = "G.actualize_row" /\ lastOp'.n = t
                    /\ lastOp'.err = "none")
         ]_vars

\* actualize_row replaced one row of R while a cached integral of another
\* row, not zero, stayed valid.
C14_Witness ==
    /\ lastOp.op = "F.actualize_row" /\ lastOp.err = "none"
    /\ \E t \in 0..T, j \in 1..(N + 2) :
          t # lastOp.n /\ u.F.mask[t][j] /\ u.F.matrix[t][j] # I(0)

\* alpha = eps * dt / h1 ** 2 of SolverU.
Alpha == QDiv(QMul(u.eps, u.dt), QMul(h1, h1))

\* 1 + dt * (-m_1 + r * F[n]) at trait point i, with F[n] integrated from
\* the row n of R that F holds.
Growth(n, i) ==
    QAdd(I(1), QMul(u.dt, QAdd(QNeg(u.m_1[i]),
                               QMul(u.r[i], simpson(VMul(u.F.K[i], u.F.R[n]), y)))))

\* Row i of the matrix: its sum, its diagonal and its off-diagonal weights.
TransitionRow(matrix, n, i) ==
    \E growth \in {Growth(n, i)}, alpha \in {Alpha} :
       /\ VSum(matrix[i]) = growth
       /\ matrix[i][i] = QSub(growth, QMul(I(2), alpha))
       /\ \A j \in 1..(N + 2) :
             (j # i) =>
                matrix[i][j] =
                   IF (i = 1 /\ j = 2) \/ (i = N + 2 /\ j = N + 1) THEN QMul(I(2), alpha)
                   ELSE IF (j = i + 1 \/ j = i - 1) THEN alpha
                   ELSE I(0)

\* C15: every row of SolverU's transition matrix of step n sums to
\* 1 + dt * (-m_1 + r * F[n]) at its trait point; its diagonal is that minus
\* 2 * alpha; an interior row has the weight alpha on both sides, the first
\* and the last row the single weight 2 * alpha at [0, 1] and [N + 1, N].
C15_RowSums ==
    sut = "U" =>
       \A n \in 0..(T - 1) :
          \E tm \in {SolverU_create_transition_matrix(u, n)} :
             \A i \in 1..(N + 2) : TransitionRow(tm.val, n, i)

\* SolverU stepped with a matrix that has diffusion and a reaction term: the
\* sum of its first row is not 1.
C15_Witness ==
    /\ lastOp.op = "u.actualize_step_np1" /\ lastOp.wrote # {}
    /\ Alpha # I(0) /\ Growth(lastOp.n, 1) # I(1)
    /\ VSum(SolverU_create_transition_matrix(u, lastOp.n).val[1]) = Growth(lastOp.n, 1)

\* m_1 = 0 and r * F[n] = 0 at every trait point.
ZeroReaction(n) ==
    \A i \in 1..(N + 2) :
       /\ u.m_1[i] = I(0)
       /\ QMul(u.r[i], simpson(VMul(u.F.K[i], u.F.R[n]), y)) = I(0)

\* A producing step of SolverU under zero reaction.
ZeroReactionStep ==
    /\ lastOp.op = "u.actualize_step_np1" /\ lastOp.wrote # {}
    /\ ZeroReaction(lastOp.n)

\* The sum of a row over the mesh with the two edge points counted half
\* (the trapezoidal rule with unit spacing).
TrapezoidMass(row) ==
    QSub(VSum(row), QDiv(QAdd(row[1], row[Len(row)]), I(2)))

\* C16 as stated: under zero reaction a step of SolverU keeps the sum of the
\* row over the N + 2 trait points, for every row u[n].
C16_Original ==
    ZeroReactionStep => VSum(u.u[lastOp.n + 1]) = VSum(u.u[lastOp.n])

\* C16 as amended: under zero reaction a step of SolverU keeps the sum of
\* the row in which the two edge points count half, for every row u[n].
C16_Amended ==
    ZeroReactionStep => TrapezoidMass(u.u[lastOp.n + 1]) = TrapezoidMass(u.u[lastOp.n])

\* A step with diffusion and zero reaction changed the plain sum of the row
\* and kept the sum with half-weighted edges, which is not zero.
C16_Witness ==
    /\ ZeroReactionStep /\ Alpha # I(0)
    /\ VSum(u.u[lastOp.n + 1]) # VSum(u.u[lastOp.n])
    /\ TrapezoidMass(u.u[lastOp.n + 1]) = TrapezoidMass(u.u[lastOp.n])
    /\ TrapezoidMass(u.u[lastOp.n]) # I(0)

\* The row SolverU's update gives from its row n of u and the row n of R it
\* holds, with F[n] integrated anew.
ExpectedU(n) ==
    With(central_diagonal(u, Alpha,
                          [i \in 1..(N + 2) |-> simpson(VMul(u.F.K[i], u.R[n]), y)]),
         LAMBDA beta_array :
            dot([i \in 1..(N + 2) |-> [j \in 1..(N + 2) |->
                    transition_entry(Alpha, beta_array, i, j)]], u.u[n]))

\* G[k] integrated anew from the row k of u that SolverR holds.
FreshG(k) ==
    [kk \in 1..(M + 2) |-> simpson(VMul(VMul(R.G.r, column(R.G.K, kk)), R.u[k]), x)]

\* The row SolverR's update gives from its row n of R and the row of u it holds.
ExpectedR(n) ==
    IF R.method = 1 THEN method1_row(R, FreshG(n), n) ELSE method2_row(R, FreshG(n + 1))

\* The index in the log of the last write of row k of `field`, 0 if none.
LastWrite(field, k) ==
    IF Written(field, k)
    THEN CHOOSE i \in 1..Len(writes) :
            /\ writes[i] = <<field, k>>
            /\ \A j \in (i + 1)..Len(writes) : writes[j] # <<field, k>>
    ELSE 0

\* C17 as stated: the row actualize_step_np1(n) returns is the update
\* computed from the companion row the solver holds now (rows n+1 that were
\* written after their own row n, so that only the companion row can be
\* superseded).
C17_Original ==
    /\ (lastOp.op = "u.actualize_step_np1"
        /\ LastWrite("u", lastOp.n + 1) > LastWrite("u", lastOp.n))
       => lastOp.val = ExpectedU(lastOp.n)
    /\ (lastOp.op = "R.actualize_step_np1"
        /\ LastWrite("R", lastOp.n + 1) > LastWrite("R", lastOp.n))
       => lastOp.val = ExpectedR(lastOp.n)

\* C17 as amended: a producing actualize_step_np1(n) stores the update
\* computed from the companion row the solver holds at that call; a
\* successful actualize_row(row, k) clears mask row k of the solver, which
\* is the row derived from companion row k in SolverRMethod2 only, and
\* leaves every stored row and every other mask row as they were.
C17_Amended ==
    [][ \E n \in {lastOp'.n} :
        /\ (lastOp'.op = "u.actualize_step_np1" /\ lastOp'.wrote # {}) =>
              (lastOp'.val = ExpectedU(n)' /\ u'.u[n + 1] = lastOp'.val)
        /\ (lastOp'.op = "R.actualize_step_np1" /\ lastOp'.wrote # {}) =>
              (lastOp'.val = ExpectedR(n)' /\ R'.R[n + 1] = lastOp'.val)
        /\ (lastOp'.op = "u.actualize_row" /\ lastOp'.err = "none") =>
              /\ u'.u = u.u
              /\ u'.mask = update_mask_row(u.mask, n, FALSE)
        /\ (lastOp'.op = "R.actualize_row" /\ lastOp'.err = "none") =>
              /\ R'.R = R.R
              /\ R'.mask = update_mask_row(R.mask, n, FALSE)
      ]_vars

\* Scheme 2 produced row n + 1 a second time, from the row of u supplied
\* after the first.
C17_Witness ==
    /\ lastOp.op = "R.actualize_step_np1" /\ R.method = 2
    /\ lastOp.wrote = {lastOp.n + 1} /\ (lastOp.n + 1) \in supplied.R
    /\ Cardinality({i \in 1..Len(writes) : writes[i] = <<"R", lastOp.n + 1>>}) = 2
    /\ lastOp.val = ExpectedR(lastOp.n)

\* Row k of `field` has been written: at construction (k = 0) or by a step.
Filled(field, k) == k = 0 \/ Written(field, k)

\* C18 as stated: in a run of solve_perthame every written row of u and of
\* R stays marked computed, so that on return rows 0..T of both are marked
\* and a repeated actualize_step_np1(n), n < T, writes nothing.
C18_Original ==
    /\ \A k \in 0..T : Filled("u", k) => is_row_calculated(u.mask, k)
    /\ \A k \in 0..T : Filled("R", k) => is_row_calculated(R.mask, k)
    /\ drv.pc = "return" =>
          \A n \in 0..(T - 1) :
             /\ SolverU_actualize_step_np1(u, n).wrote = {}
             /\ SolverR_actualize_step_np1(R, n).wrote = {}

\* C18 as amended: in a run of solve_perthame every written row of R stays
\* marked computed; a written row k of u is marked until u.actualize_row(R[k],
\* k) clears it.  On return rows 0..T of R and row T alone of u are marked; a
\* repeated R.actualize_step_np1(n) writes nothing, a repeated
\* u.actualize_step_np1(n) writes nothing for n = T - 1 and writes row n + 1
\* again, with the value it has, for n < T - 1.
C18_Amended ==
    /\ \A k \in 0..T : Filled("R", k) => is_row_calculated(R.mask, k)
    /\ \A k \in 0..T :
          is_row_calculated(u.mask, k) <=> (Filled("u", k) /\ k \notin supplied.u)
    /\ drv.pc = "return" =>
          /\ \A k \in 0..T : is_row_calculated(R.mask, k)
          /\ \A k \in 0..T : is_row_calculated(u.mask, k) <=> k = T
          /\ \A n \in 0..(T - 1) :
                /\ SolverR_actualize_step_np1(R, n).wrote = {}
                /\ \E again \in {SolverU_actualize_step_np1(u, n)} :
                      /\ again.wrote = IF n = T - 1 THEN {} ELSE {n + 1}
                      /\ again.obj.u = u.u

\* solve_perthame returned after two or more iterations: row 1 of u was
\* written and is not marked.
C18_Witness ==
    /\ drv.pc = "return" /\ T >= 2
    /\ Written("u", 1) /\ ~is_row_calculated(u.mask, 1)
    /\ SolverU_actualize_step_np1(u, 0).wrote = {1}

\* The solver and its functional hold the same rows of the companion field.
SameCompanion ==
    /\ sut = "U" => u.R = u.F.R
    /\ sut = "R" => R.u = R.G.u

\* C19: a solver's actualize_row(row, n) that fails the shape check changes
\* nothing of the solver or of its functional; one that passes it cannot
\* fail in the functional and stores the row in both copies, so that the
\* solver's and the functional's rows of the companion field are always the
\* same.
C19_Atomic ==
    /\ []SameCompanion
    /\ [][ \E n \in {lastOp'.n}, row \in {lastOp'.row} :
           /\ lastOp'.op = "u.actualize_row" =>
                 IF validate_nth_row(row, u.R[n])
                 THEN /\ lastOp'.err = "none"
                      /\ u'.R[n] = row /\ u'.F.R[n] = row
                 ELSE /\ lastOp'.err = "ShapeMismatch"
                      /\ u' = u
           /\ lastOp'.op = "R.actualize_row" =>
                 IF validate_nth_row(row, R.u[n])
                 THEN /\ lastOp'.err = "none"
                      /\ R'.u[n] = row /\ R'.G.u[n] = row
                 ELSE /\ lastOp'.err = "ShapeMismatch"
                      /\ R' = R
         ]_vars

\* A row of the wrong length was refused at a time index where a row had
\* been stored before; the stored row is still in both copies.
C19_Witness ==
    /\ lastOp.op = "R.actualize_row" /\ lastOp.err = "ShapeMismatch"
    /\ lastOp.n \in supplied.R
    /\ R.u[lastOp.n] = R.G.u[lastOp.n]
    /\ R.u[lastOp.n] # lastOp.row
    /\ ~is_row_calculated(R.G.mask, lastOp.n)

====
